---- MODULE Spec2Model ----
(***************************************************************************)
(* Model of shelfeng/skiaicoach.                                           *)
(*                                                                         *)
(*   Part I  (Spec):   the job lifecycle of app.py: upload_file, the       *)
(*                     worker thread background_processing, the per-job   *)
(*                     JSON files written by save_job and read by         *)
(*                     load_job, and the polling routes.                   *)
(*   Part II (SpecF):  extract_frames_for_display of video_processor.py.   *)
(*   Part III (SpecA): one call of coach.analyze, statement by statement,  *)
(*                     for OpenAICoach and GeminiCoach.                    *)
(***************************************************************************)
EXTENDS Integers, Sequences, FiniteSets, TLC

VARIABLES
    useAzure,     \* USE_AZURE_STORAGE (app.py:29), fixed at start-up
    upc,          \* upc[j]: position of the upload_file request of job j
    wpc,          \* wpc[j]: position of the worker thread of job j
    started,      \* started[j]: number of thread.start() calls bound to job j
    jobFiles,     \* jobFiles[p]: content of JOBS_FOLDER/<p>.json, or NoFile
    tempVideos,   \* tempVideos[p]: 0, or the job whose run wrote UPLOAD_FOLDER/temp_<p>
    frameDirs,    \* frameDirs[d]: the jobs whose runs wrote frames into static/frames/<d>
    analysis,     \* analysis[j]: analysis_result of the worker of job j
    job_data,     \* job_data[j]: the dict the worker of job j is about to save
    exc,          \* exc[j]: the exception e the worker's handler caught
    tempDirs,     \* tempDirs[d]: 0, or the job whose run created temp/<d>
    saved,        \* saved[j]: outcome of the most recent save_job call for job j
    prevRec,      \* prevRec[j]: what load_job returned when that save_job call began
    lastRead,     \* the response of the most recent polling request
    \* ---- Part II: one call of extract_frames_for_display ----
    fpc,              \* position in the call
    has_imageio,      \* HAS_IMAGEIO
    stream,           \* number of frames the video really holds
    total_frames,     \* total_frames after METHOD A
    num_frames,       \* the requested frame count
    out_dir,          \* the files in output_folder
    extracted_paths,  \* the list the call builds and returns
    tried,            \* the strategies the call has run, in order
    \* ---- Part III: one call of coach.analyze ----
    apc,              \* position in the call
    coach_class,      \* the class get_coach returned
    has_lib,          \* HAS_OPENAI / HAS_GEMINI, for that class
    self_azure,       \* self.azure_endpoint and self.azure_api_key
    self_openai_key,  \* self.openai_api_key
    n_frames,         \* len(display_frames)
    video_file,       \* video_file.state.name
    requests,         \* calls of chat.completions.create / generate_content
    outcome           \* what the call returned or raised

jobVars == <<useAzure, upc, wpc, started, jobFiles, tempVideos,
             frameDirs, tempDirs, analysis, job_data, exc, saved, prevRec,
             lastRead>>

frameVars == <<fpc, has_imageio, stream, total_frames, num_frames, out_dir,
               extracted_paths, tried>>

coachVars == <<apc, coach_class, has_lib, self_azure, self_openai_key, n_frames,
               video_file, requests, outcome>>

vars == <<jobVars, frameVars, coachVars>>

(***************************************************************************)
(* Bounds                                                                  *)
(***************************************************************************)
NumJobs == 2

\* the largest requested frame count
MaxNum == 3

\* the longest video, in frames
MaxStream == 61

\* the most files the external decoder writes
MaxProduced == 4

Jobs == 1..NumJobs

(***************************************************************************)
(* Paths.  A path is modelled by the job id that the code formats into it. *)
(***************************************************************************)
\* a path that leaves the job id out
JobFileShared(job_id) == 1

\* os.path.join(JOBS_FOLDER, f"{job_id}.json")
JobFile(job_id) == job_id

\* os.path.join(UPLOAD_FOLDER, f"temp_{job_id}.{extension}")
TempVideoPath(job_id) == job_id

\* os.path.join("temp", job_id)
TempDir(job_id) == job_id

\* os.path.join(app_root, "static", "frames", os.path.basename(temp_dir))
StaticFramesDir(temp_dir) == temp_dir

\* os.path.join(UPLOAD_FOLDER, f"{job_id}_{filename}") / blob f"{job_id}_{filename}"
FileSource(job_id) == job_id

(***************************************************************************)
(* JSON files.  A file is [exists, content]; content is the sequence of    *)
(* tokens json.dump has written so far.  json.load accepts a content only  *)
(* when it is a whole object.                                              *)
(***************************************************************************)
NoFile == [exists |-> FALSE, content |-> <<>>]

\* Python's None / the empty dict: both are falsy, and every use in app.py
\* (`load_job(job_id) or {}`, `if not job`) treats them alike.
None == [k \in {} |-> "none"]

IsNone(d) == DOMAIN d = {}

Pair(d, key) == IF key \in DOMAIN d THEN <<[k |-> key, v |-> d[key]]>> ELSE <<>>

\* json.dump(data, f): the keys in insertion order (status, then data, then error)
Dump(d) ==
    <<[k |-> "{", v |-> "{"]>> \o Pair(d, "status") \o Pair(d, "data")
        \o Pair(d, "error") \o <<[k |-> "}", v |-> "}"]>>

\* json.load(f) succeeds only on a complete object
Parses(c) == Len(c) >= 2 /\ c[1].k = "{" /\ c[Len(c)].k = "}"

Loads(c) ==
    LET idx == 2..(Len(c) - 1)
    IN  [key \in {c[i].k : i \in idx} |-> c[CHOOSE i \in idx : c[i].k = key].v]

\* job_data.update(new)
Update(old, new) ==
    [key \in DOMAIN old \cup DOMAIN new |->
        IF key \in DOMAIN new THEN new[key] ELSE old[key]]

\* load_job: None when the file is missing or json.load raised
LoadJob(files, job_id) ==
    LET f == files[JobFile(job_id)]
    IN  IF f.exists /\ Parses(f.content) THEN Loads(f.content) ELSE None


\* save_job, `with open(filepath, 'w')`: the file is created or truncated
SaveOpen(files, job_id) ==
    [files EXCEPT ![JobFile(job_id)] = [exists |-> TRUE, content |-> <<>>]]

\* save_job, json.dump(data, f) and the close: all tokens but the last `lost`
\* reach the file; lost > 0 is a dump or write that raised part-way
SaveDump(files, job_id, data, lost) ==
    [files EXCEPT ![JobFile(job_id)].content =
        SubSeq(Dump(data), 1, Len(Dump(data)) - lost)]

\* what a json.dump can leave out: nothing, or, when the dump or the flush
\* raised part-way, the closing brace (every incomplete content is the same
\* to json.load; the empty file is the state SaveOpen leaves)
WriteLosses == {0, 1}

\* a whole save_job call; open_raises is an open() that raised
SaveJob(files, job_id, data, open_raises, lost) ==
    IF open_raises THEN files
    ELSE SaveDump(SaveOpen(files, job_id), job_id, data, lost)

\* "failed" is save_job's except branch: the error is logged, nothing is raised
SaveOutcome(open_raises, lost) ==
    IF ~open_raises /\ lost = 0 THEN "ok" ELSE "failed"

(***************************************************************************)
(* video_processor.py as background_processing sees it                     *)
(***************************************************************************)
ModelNames == {"gpt-4o", "gemini-3-flash-preview"}

\* get_coach: `"gpt" in model_name.lower()` picks OpenAICoach, else GeminiCoach
GetCoach(name) == IF name = "gpt-4o" THEN "OpenAICoach" ELSE "GeminiCoach"

Return(doc) == [kind |-> "return", doc |-> doc]

Raise(msg) == [kind |-> "raise", doc |-> msg]

\* the {"error": ...} dicts analyze returns
TypedErrors == {"err_library", "err_no_frames", "err_keys", "err_parse"}

ProviderReplies == {"json", "garbage", "raise"}

\* OpenAICoach.analyze: display_frames is the sampled frame set, azure_cfg is
\* `self.azure_endpoint and self.azure_api_key`, provider is what
\* client.chat.completions.create does
OpenAIAnalyze(has_openai, display_frames, azure_cfg, openai_key, provider) ==
    IF ~has_openai THEN Return("err_library")
    ELSE IF display_frames = {} THEN Return("err_no_frames")
    ELSE IF ~azure_cfg /\ ~openai_key THEN Return("err_keys")
    ELSE IF provider = "raise" THEN Raise("provider")
    ELSE IF provider = "json" THEN Return("critique")
    ELSE Return("err_parse")

\* GeminiCoach.analyze: upload_ok is genai.upload_file returning (it raises
\* without a configured key), remote is the file state that ends the wait loop
GeminiAnalyze(has_gemini, upload_ok, remote, provider) ==
    IF ~has_gemini THEN Return("err_library")
    ELSE IF ~upload_ok THEN Raise("upload")
    ELSE IF remote = "FAILED" THEN Raise("remote_failed")
    ELSE IF provider = "raise" THEN Raise("provider")
    ELSE IF provider = "json" THEN Return("critique")
    ELSE Return("err_parse")

\* what coach.analyze can do for this coach and these frames, over every
\* installation, credential set and provider behaviour
AnalyzeResults(coach, display_frames) ==
    IF coach = "OpenAICoach"
    THEN {OpenAIAnalyze(lib, display_frames, az, key, p) :
            lib \in BOOLEAN, az \in BOOLEAN, key \in BOOLEAN, p \in ProviderReplies}
    ELSE {GeminiAnalyze(lib, up, st, p) :
            lib \in BOOLEAN, up \in BOOLEAN, st \in {"ACTIVE", "FAILED"},
            p \in ProviderReplies}

ExtractOutcomes == {"primary", "fallback", "partial", "none", "makedirs_raises"}

\* extract_frames_for_display as process_video uses it (Part II has the
\* algorithm): "primary" returns the frames this run wrote, "fallback" returns
\* the listing of the directory, "partial" wrote frames and returned [],
\* "none" wrote nothing and returned [], "makedirs_raises" is os.makedirs
\* (line 47, outside every try) raising.  Frames are named by the run that
\* wrote them.
ExtractDir(dir, job_id, how) ==
    IF how \in {"none", "makedirs_raises"} THEN dir ELSE dir \cup {job_id}

ExtractFrames(dir, job_id, how) ==
    IF how = "primary" THEN {job_id}
    ELSE IF how = "fallback" THEN ExtractDir(dir, job_id, how)
    ELSE {}

\* a sampler that raises when neither strategy gave it a frame
ExtractResultRaisesEmpty(dir, job_id, how) ==
    IF how = "makedirs_raises" THEN Raise("makedirs")
    ELSE IF ExtractFrames(dir, job_id, how) = {} THEN Raise("no_frames")
    ELSE Return(ExtractFrames(dir, job_id, how))

\* how the call of extract_frames_for_display ends: `return extracted_paths`
\* (lines 101, 148) or `return []` (line 146) for every outcome of the two
\* strategies; only os.makedirs can raise out of it
ExtractResult(dir, job_id, how) ==
    IF how = "makedirs_raises" THEN Raise("makedirs")
    ELSE Return(ExtractFrames(dir, job_id, how))

\* process_video: result['display_frames'] = display_frames
Attach(doc, video, display_frames) ==
    [doc |-> doc, video |-> video, display_frames |-> display_frames]

NoAnalysis == Attach("none", 0, {})

NoExc == [msg |-> "none", job |-> 0]

(***************************************************************************)
(* app.py                                                                  *)
(***************************************************************************)
InitialRecord == [status |-> "processing"]

CompletedUpdate(result) == [status |-> "completed", data |-> result]

FailedUpdate(e) == [status |-> "failed", error |-> e]

\* a try block that starts after the download
TryBlockAfterDownload == {"process", "completed", "completed_write", "cleanup"}

\* the statements of background_processing inside `try:` (lines 89-123)
TryBlock == {"begin", "process", "completed", "completed_write", "cleanup"}

\* where control goes when the statement at position pos raises
RaiseTo(pos) == IF pos \in TryBlock THEN "except" ELSE "escaped"

\* thread = threading.Thread(target=background_processing, ...); thread.start()
ThreadStart(n) == n + 1

NoCall ==
    /\ fpc = "idle"
    /\ has_imageio = FALSE
    /\ stream = 0
    /\ total_frames = 0
    /\ num_frames = 0
    /\ out_dir = {}
    /\ extracted_paths = <<>>
    /\ tried = <<>>

NoResult == [kind |-> "none", doc |-> "none"]

NoAnalyze ==
    /\ apc = "idle"
    /\ coach_class = "none"
    /\ has_lib = FALSE
    /\ self_azure = FALSE
    /\ self_openai_key = FALSE
    /\ n_frames = 0
    /\ video_file = "none"
    /\ requests = 0
    /\ outcome = NoResult

NoJobs ==
    /\ upc = [j \in Jobs |-> "idle"]
    /\ wpc = [j \in Jobs |-> "none"]
    /\ started = [j \in Jobs |-> 0]
    /\ jobFiles = [p \in Jobs |-> NoFile]
    /\ tempVideos = [p \in Jobs |-> 0]
    /\ frameDirs = [d \in Jobs |-> {}]
    /\ tempDirs = [d \in Jobs |-> 0]
    /\ analysis = [j \in Jobs |-> NoAnalysis]
    /\ job_data = [j \in Jobs |-> None]
    /\ exc = [j \in Jobs |-> NoExc]
    /\ saved = [j \in Jobs |-> "none"]
    /\ prevRec = [j \in Jobs |-> None]
    /\ lastRead = [job |-> 0, response |-> "none"]

Init ==
    /\ useAzure \in BOOLEAN
    /\ NoJobs
    /\ NoCall
    /\ NoAnalyze

\* upload_file, lines 148-155: a fresh job id, then save_job(job_id,
\* {"status": "processing"})
UploadInit(j) ==
    /\ upc[j] = "idle"
    /\ \E open_raises \in BOOLEAN, lost \in WriteLosses :
        /\ prevRec' = [prevRec EXCEPT ![j] = LoadJob(jobFiles, j)]
        /\ jobFiles' = SaveJob(jobFiles, j, InitialRecord, open_raises, lost)
        /\ saved' = [saved EXCEPT ![j] = SaveOutcome(open_raises, lost)]
    /\ upc' = [upc EXCEPT ![j] = "initialized"]
    /\ UNCHANGED <<coachVars, frameVars, useAzure, wpc, started, tempVideos, frameDirs, tempDirs,
                   analysis, job_data, exc, lastRead>>

\* an upload_file that starts the thread first and writes the initial record
\* afterwards
UploadDispatchFirst(j) ==
    /\ upc[j] = "idle" /\ wpc[j] = "none"
    /\ started' = [started EXCEPT ![j] = ThreadStart(@)]
    /\ wpc' = [wpc EXCEPT ![j] = "begin"]
    /\ UNCHANGED <<coachVars, frameVars, useAzure, upc, jobFiles, tempVideos,
                   frameDirs, tempDirs, analysis, job_data, exc, saved,
                   prevRec, lastRead>>

\* upload_file, lines 157-176: store the video (upload_blob / file.save), start
\* the thread and redirect; when storing raises no thread is started
UploadDispatch(j) ==
    /\ upc[j] = "initialized"
    /\ \E store_raises \in BOOLEAN :
        IF ~store_raises
        THEN /\ started' = [started EXCEPT ![j] = ThreadStart(@)]
             /\ wpc' = [wpc EXCEPT ![j] = "begin"]
             /\ upc' = [upc EXCEPT ![j] = "redirected"]
        ELSE /\ upc' = [upc EXCEPT ![j] = "error"]
             /\ UNCHANGED <<started, wpc>>
    /\ UNCHANGED <<coachVars, frameVars, useAzure, jobFiles, tempVideos, frameDirs,
                   tempDirs, analysis, job_data, exc, saved, prevRec,
                   lastRead>>

\* background_processing, lines 90-106: download the blob to the temp file when
\* is_azure, then create temp/<job_id>
Materialize(j) ==
    /\ wpc[j] = "begin"
    /\ IF useAzure
       THEN \E r \in {"ok", "raise_before_open", "raise_after_open"} :
            /\ tempVideos' = IF r = "raise_before_open" THEN tempVideos
                             ELSE [tempVideos EXCEPT ![TempVideoPath(j)] = j]
            /\ IF r = "ok"
               THEN /\ wpc' = [wpc EXCEPT ![j] = "process"]
                    /\ tempDirs' = [tempDirs EXCEPT ![TempDir(j)] = j]
                    /\ exc' = exc
               ELSE /\ wpc' = [wpc EXCEPT ![j] = RaiseTo("begin")]
                    /\ exc' = [exc EXCEPT ![j] = [msg |-> "download", job |-> j]]
                    /\ tempDirs' = tempDirs
       ELSE /\ wpc' = [wpc EXCEPT ![j] = "process"]
            /\ tempDirs' = [tempDirs EXCEPT ![TempDir(j)] = j]
            /\ UNCHANGED <<tempVideos, exc>>
    /\ UNCHANGED <<coachVars, frameVars, useAzure, upc, started, jobFiles, frameDirs,
                   analysis, job_data, saved, prevRec, lastRead>>

\* background_processing, line 109: process_video(file_to_process, temp_dir,
\* model_name) = extract_frames_for_display, get_coach, coach.analyze, attach
ProcessVideo(j) ==
    /\ wpc[j] = "process"
    /\ \E how \in ExtractOutcomes :
        LET dir     == StaticFramesDir(TempDir(j))
            sampled == ExtractResult(frameDirs[dir], j, how)
            frames  == sampled.doc
            video   == IF useAzure THEN tempVideos[TempVideoPath(j)]
                                   ELSE FileSource(j)
        IN  /\ frameDirs' = [frameDirs EXCEPT ![dir] = ExtractDir(@, j, how)]
            /\ IF sampled.kind = "raise"
               THEN /\ exc' = [exc EXCEPT ![j] = [msg |-> sampled.doc, job |-> j]]
                    /\ wpc' = [wpc EXCEPT ![j] = RaiseTo("process")]
                    /\ analysis' = analysis
               ELSE \E name \in ModelNames :
                    \E r \in AnalyzeResults(GetCoach(name), frames) :
                     IF r.kind = "return"
                     THEN /\ analysis' = [analysis EXCEPT
                                            ![j] = Attach(r.doc, video, frames)]
                          /\ wpc' = [wpc EXCEPT ![j] = "completed"]
                          /\ exc' = exc
                     ELSE /\ exc' = [exc EXCEPT ![j] = [msg |-> r.doc, job |-> j]]
                          /\ wpc' = [wpc EXCEPT ![j] = RaiseTo("process")]
                          /\ analysis' = analysis
    /\ UNCHANGED <<coachVars, frameVars, useAzure, upc, started, jobFiles,
                   tempVideos, tempDirs, job_data, saved, prevRec, lastRead>>

\* the worker's load_job, job_data.update(new) and save_job's open()
\* (lines 112-117 and 127-132 up to the open); next is the position after
\* save_job when the open raised
UpdateAndOpen(j, new, writing, next) ==
    /\ job_data' = [job_data EXCEPT ![j] = Update(LoadJob(jobFiles, j), new)]
    /\ prevRec' = [prevRec EXCEPT ![j] = LoadJob(jobFiles, j)]
    /\ \E open_raises \in BOOLEAN :
        IF ~open_raises
        THEN /\ jobFiles' = SaveOpen(jobFiles, j)
             /\ saved' = [saved EXCEPT ![j] = "open"]
             /\ wpc' = [wpc EXCEPT ![j] = writing]
        ELSE /\ jobFiles' = jobFiles
             /\ saved' = [saved EXCEPT ![j] = "failed"]
             /\ wpc' = [wpc EXCEPT ![j] = next]

\* save_job's json.dump and close, for the dict prepared by UpdateAndOpen
DumpAndClose(j, next) ==
    \E lost \in WriteLosses :
        /\ jobFiles' = SaveDump(jobFiles, j, job_data[j], lost)
        /\ saved' = [saved EXCEPT ![j] = SaveOutcome(FALSE, lost)]
        /\ wpc' = [wpc EXCEPT ![j] = next]

\* background_processing, lines 112-117
UpdateCompleted(j) ==
    /\ wpc[j] = "completed"
    /\ UpdateAndOpen(j, CompletedUpdate(analysis[j]), "completed_write", "cleanup")
    /\ UNCHANGED <<coachVars, frameVars, useAzure, upc, started, tempVideos, frameDirs,
                   tempDirs, analysis, exc, lastRead>>

WriteCompleted(j) ==
    /\ wpc[j] = "completed_write"
    /\ DumpAndClose(j, "cleanup")
    /\ UNCHANGED <<coachVars, frameVars, useAzure, upc, started, tempVideos, frameDirs,
                   tempDirs, analysis, job_data, exc, prevRec, lastRead>>

\* background_processing, lines 119-123: os.remove(temp_video_path) when
\* is_azure and the file exists; os.remove may raise
Cleanup(j) ==
    /\ wpc[j] = "cleanup"
    /\ IF useAzure /\ tempVideos[TempVideoPath(j)] # 0
       THEN \E remove_raises \in BOOLEAN :
            IF ~remove_raises
            THEN /\ tempVideos' = [tempVideos EXCEPT ![TempVideoPath(j)] = 0]
                 /\ wpc' = [wpc EXCEPT ![j] = "done"]
                 /\ exc' = exc
            ELSE /\ exc' = [exc EXCEPT ![j] = [msg |-> "remove", job |-> j]]
                 /\ wpc' = [wpc EXCEPT ![j] = RaiseTo("cleanup")]
                 /\ tempVideos' = tempVideos
       ELSE /\ wpc' = [wpc EXCEPT ![j] = "done"]
            /\ UNCHANGED <<tempVideos, exc>>
    /\ UNCHANGED <<coachVars, frameVars, useAzure, upc, started, jobFiles, frameDirs,
                   tempDirs, analysis, job_data, saved, prevRec,
                   lastRead>>

\* background_processing, lines 125-132: the handler
HandleFailure(j) ==
    /\ wpc[j] = "except"
    /\ UpdateAndOpen(j, FailedUpdate(exc[j]), "failed_write", "done")
    /\ UNCHANGED <<coachVars, frameVars, useAzure, upc, started, tempVideos, frameDirs,
                   tempDirs, analysis, exc, lastRead>>

WriteFailed(j) ==
    /\ wpc[j] = "failed_write"
    /\ DumpAndClose(j, "done")
    /\ UNCHANGED <<coachVars, frameVars, useAzure, upc, started, tempVideos, frameDirs,
                   tempDirs, analysis, job_data, exc, prevRec, lastRead>>

\* what the routes answer for a loaded job: 404 for a falsy one, else its status
Response(job) == IF IsNone(job) THEN "not_found" ELSE job.status

\* result / job_status: load_job(job_id), `if not job` is the 404.  A client
\* learns the job id from upload_file's redirect.
Poll(j) ==
    /\ upc[j] = "redirected"
    /\ lastRead' = [job |-> j, response |-> Response(LoadJob(jobFiles, j))]
    /\ UNCHANGED <<coachVars, frameVars, useAzure, upc, wpc, started, jobFiles,
                   tempVideos, frameDirs, tempDirs, analysis, job_data, exc,
                   saved, prevRec>>

Next ==
    \E j \in Jobs :
        \/ UploadInit(j)
        \/ UploadDispatch(j)
        \/ Materialize(j)
        \/ ProcessVideo(j)
        \/ UpdateCompleted(j)
        \/ WriteCompleted(j)
        \/ Cleanup(j)
        \/ HandleFailure(j)
        \/ WriteFailed(j)
        \/ Poll(j)

Spec == Init /\ [][Next]_vars

\* the steps of the worker thread of job j
WorkerStep(j) ==
    \/ Materialize(j)
    \/ ProcessVideo(j)
    \/ UpdateCompleted(j)
    \/ WriteCompleted(j)
    \/ Cleanup(j)
    \/ HandleFailure(j)
    \/ WriteFailed(j)

\* one submission on its own: its request, its worker thread and its polls
NextOne ==
    \E j \in {1} :
        \/ UploadInit(j)
        \/ UploadDispatch(j)
        \/ WorkerStep(j)
        \/ Poll(j)

\* one submission under fair scheduling: a request that has written the
\* initial record goes on to line 157, a started thread keeps running, and
\* every external call returns or raises
SpecFair ==
    /\ Init
    /\ [][NextOne]_vars
    /\ \A j \in {1} : WF_vars(UploadDispatch(j)) /\ WF_vars(WorkerStep(j))

(***************************************************************************)
(* Part II.  extract_frames_for_display(video_path, output_folder,         *)
(* num_frames).  A file is [by, i, src]: the strategy that wrote it, the   *)
(* number in its name (frame_<i>_<time>.jpg for imageio, frame_<i as %03d> *)
(* .jpg for the external decoder) and the source position it shows (the    *)
(* frame index for imageio, the second for the decoder).                   *)
(***************************************************************************)
\* stride = 30
Stride == 30

\* total_frames < 1000000
FrameLimit == 1000000

ImageioFile(i, idx) == [by |-> "imageio", i |-> i, src |-> idx]

FfmpegFile(k) == [by |-> "ffmpeg", i |-> k, src |-> k - 1]

Range(q) == {q[x] : x \in DOMAIN q}

\* evenly spaced values rounded to the nearest integer instead of cut down
LinspaceNearest(total, num) ==
    [x \in 1..num |->
        IF num = 1 THEN 0
        ELSE (2 * (x - 1) * (total - 1) + (num - 1)) \div (2 * (num - 1))]

\* np.linspace(0, total - 1, num, dtype=int): num evenly spaced values from 0
\* to total - 1, cut down to integers (the doubles numpy computes are exact
\* for every total and num used here)
Linspace(total, num) ==
    [x \in 1..num |-> IF num = 1 THEN 0 ELSE ((x - 1) * (total - 1)) \div (num - 1)]

\* the known-count loop, lines 67-77: position x is skipped when imread or
\* imwrite raised (x in fails, or the index is past the end of the stream)
KnownCount(total, num, n, fails) ==
    LET indices == Linspace(total, num)
        all     == [x \in 1..num |-> ImageioFile(x - 1, indices[x])]
    IN  SelectSeq(all, LAMBDA f : (f.i + 1) \notin fails /\ f.src < n)

\* the iterator loop leaving one capture late (`>` for `>=` in line 97)
RECURSIVE IterateLate(_, _, _, _, _)
IterateLate(i, paths, n, num, raise_at) ==
    IF i = raise_at THEN [paths |-> paths, raised |-> TRUE]
    ELSE IF i >= n THEN [paths |-> paths, raised |-> FALSE]
    ELSE IF i % Stride = 0
         THEN LET captured == Append(paths, ImageioFile(Len(paths), i))
              IN  IF Len(captured) > num
                  THEN [paths |-> captured, raised |-> FALSE]
                  ELSE IterateLate(i + 1, captured, n, num, raise_at)
         ELSE IterateLate(i + 1, paths, n, num, raise_at)

\* the iterator loop, lines 86-98, from stream position i on; raise_at is the
\* position at which iio.imiter or iio.imwrite raises (none when negative)
RECURSIVE Iterate(_, _, _, _, _)
Iterate(i, paths, n, num, raise_at) ==
    IF i = raise_at THEN [paths |-> paths, raised |-> TRUE]
    ELSE IF i >= n THEN [paths |-> paths, raised |-> FALSE]
    ELSE IF i % Stride = 0
         THEN LET captured == Append(paths, ImageioFile(Len(paths), i))
              IN  IF Len(captured) >= num
                  THEN [paths |-> captured, raised |-> FALSE]
                  ELSE Iterate(i + 1, captured, n, num, raise_at)
         ELSE Iterate(i + 1, paths, n, num, raise_at)

\* the characters of a file name after "frame_", as code points
RECURSIVE Digits(_)
Digits(n) == IF n < 10 THEN <<48 + n>> ELSE Append(Digits(n \div 10), 48 + (n % 10))

Pad3(n) ==
    IF n < 10 THEN <<48, 48>> \o Digits(n)
    ELSE IF n < 100 THEN <<48>> \o Digits(n)
    ELSE Digits(n)

\* "_" is 95 and "." is 46; the time stamp after "_" never decides an order
\* between two files of one directory, whose numbers differ
NameKey(f) ==
    IF f.by = "imageio" THEN Append(Digits(f.i), 95) ELSE Append(Pad3(f.i), 46)

\* Python's order on str
StrLess(a, b) ==
    \E k \in 1..(Len(a) + 1) :
        /\ \A m \in 1..(k - 1) : m <= Len(b) /\ a[m] = b[m]
        /\ IF k <= Len(a) THEN k <= Len(b) /\ a[k] < b[k] ELSE k <= Len(b)

\* sorted([f for f in os.listdir(output_folder) if ...])
RECURSIVE Sorted(_)
Sorted(S) ==
    IF S = {} THEN <<>>
    ELSE LET first == CHOOSE f \in S :
                        \A g \in S \ {f} : StrLess(NameKey(f), NameKey(g))
         IN  <<first>> \o Sorted(S \ {first})

\* subprocess.run(cmd, ...): the decoder writes frame_001.jpg ... into the folder
Ffmpeg(dir, produced) == dir \cup {FfmpegFile(k) : k \in 1..produced}

\* lines 137-142; `step = len(files) / num_frames` raises for num_frames = 0
DownsampleRaises(files, num) == Len(files) > num /\ num = 0

Downsample(files, num) ==
    IF Len(files) > num
    THEN [x \in 1..num |-> files[((x - 1) * Len(files)) \div num + 1]]
    ELSE files

\* what METHOD A can leave in total_frames: 0 when improps raised or knew
\* nothing, the real count, or a number out of range
TotalReports(n) == {0, n, FrameLimit}

\* the call, up to line 52
Call ==
    /\ fpc = "idle"
    /\ \E lib \in BOOLEAN, n \in 0..MaxStream, num \in 0..MaxNum :
        /\ has_imageio' = lib
        /\ stream' = n
        /\ num_frames' = num
        /\ fpc' = IF lib THEN "primary" ELSE "fallback"
    /\ total_frames' = 0
    /\ out_dir' = {}
    /\ extracted_paths' = <<>>
    /\ tried' = <<>>
    /\ UNCHANGED <<coachVars, jobVars>>

\* METHOD A, lines 57-62
Improps ==
    /\ fpc = "primary"
    /\ \E t \in TotalReports(stream) : total_frames' = t
    /\ fpc' = "primary_loop"
    /\ UNCHANGED <<coachVars, jobVars, has_imageio, stream, num_frames, out_dir,
                   extracted_paths, tried>>

\* lines 65-77 and 100-101
PrimaryKnown ==
    /\ fpc = "primary_loop"
    /\ total_frames > 0 /\ total_frames < FrameLimit
    /\ \E fails \in SUBSET (1..num_frames) :
        LET paths == KnownCount(total_frames, num_frames, stream, fails)
        IN  /\ extracted_paths' = paths
            /\ out_dir' = out_dir \cup Range(paths)
            /\ fpc' = IF paths # <<>> THEN "returned" ELSE "fallback"
    /\ tried' = Append(tried, "known")
    /\ UNCHANGED <<coachVars, jobVars, has_imageio, stream, total_frames, num_frames>>

\* lines 78-104
PrimaryIterate ==
    /\ fpc = "primary_loop"
    /\ ~(total_frames > 0 /\ total_frames < FrameLimit)
    /\ \E raise_at \in -1..stream :
        LET r == Iterate(0, <<>>, stream, num_frames, raise_at)
        IN  /\ extracted_paths' = r.paths
            /\ out_dir' = out_dir \cup Range(r.paths)
            /\ fpc' = IF ~r.raised /\ r.paths # <<>> THEN "returned" ELSE "fallback"
            /\ tried' = Append(tried, IF r.raised THEN "iterate_raised" ELSE "iterate")
    /\ UNCHANGED <<coachVars, jobVars, has_imageio, stream, total_frames, num_frames>>

\* lines 106-148; ran is subprocess.run returning without raising (with
\* check=True a decoder that exits non-zero raises, whatever it wrote)
Fallback ==
    /\ fpc = "fallback"
    /\ \E ran \in BOOLEAN, produced \in 0..MaxProduced :
        LET dir   == Ffmpeg(out_dir, produced)
            files == Sorted(dir)
        IN  /\ out_dir' = dir
            /\ extracted_paths' =
                 IF ~ran \/ DownsampleRaises(files, num_frames) THEN <<>>
                 ELSE Downsample(files, num_frames)
            /\ tried' = Append(tried, IF ran THEN "ffmpeg" ELSE "ffmpeg_raised")
    /\ fpc' = "returned"
    /\ UNCHANGED <<coachVars, jobVars, has_imageio, stream, total_frames, num_frames>>

NextF == Call \/ Improps \/ PrimaryKnown \/ PrimaryIterate \/ Fallback

InitF ==
    /\ useAzure = FALSE
    /\ NoJobs
    /\ NoCall
    /\ NoAnalyze

SpecF == InitF /\ [][NextF]_vars

(***************************************************************************)
(* Part III.  coach.analyze(video_path, frames_dir, display_frames), one   *)
(* statement group per action.                                             *)
(***************************************************************************)
\* OpenAICoach.analyze without the test of display_frames
OpenAIGuardNoFrameTest(has_openai, frames, azure, key) ==
    IF ~has_openai THEN "err_library"
    ELSE IF ~azure /\ ~key THEN "err_keys"
    ELSE "proceed"

\* OpenAICoach.analyze, lines 236-254: the returns that come before the
\* request is built
OpenAIGuard(has_openai, frames, azure, key) ==
    IF ~has_openai THEN "err_library"
    ELSE IF frames = 0 THEN "err_no_frames"
    ELSE IF ~azure /\ ~key THEN "err_keys"
    ELSE "proceed"

\* what the remote service reports for an uploaded file
FileStates == {"PROCESSING", "ACTIVE", "FAILED"}

\* json.loads of the provider's reply, lines 213-218 and 299-303
ParseReply(provider) ==
    IF provider = "json" THEN Return("critique") ELSE Return("err_parse")

\* process_video, lines 338-341: get_coach(model_name) and the call
AnalyzeCall ==
    /\ apc = "idle"
    /\ \E name \in ModelNames, lib \in BOOLEAN, azure \in BOOLEAN,
          key \in BOOLEAN, frames \in 0..MaxNum :
        /\ coach_class' = GetCoach(name)
        /\ has_lib' = lib
        /\ self_azure' = azure
        /\ self_openai_key' = key
        /\ n_frames' = frames
    /\ apc' = "entered"
    /\ UNCHANGED <<jobVars, frameVars, video_file, requests, outcome>>

\* OpenAICoach.analyze, lines 236-254
OpenAIChecks ==
    /\ apc = "entered" /\ coach_class = "OpenAICoach"
    /\ LET g == OpenAIGuard(has_lib, n_frames, self_azure, self_openai_key)
       IN  IF g = "proceed"
           THEN apc' = "request" /\ outcome' = outcome
           ELSE apc' = "returned" /\ outcome' = Return(g)
    /\ UNCHANGED <<jobVars, frameVars, coach_class, has_lib, self_azure,
                   self_openai_key, n_frames, video_file, requests>>

\* OpenAICoach.analyze, lines 257-303: build the content, one
\* client.chat.completions.create, json.loads
OpenAIRequest ==
    /\ apc = "request" /\ coach_class = "OpenAICoach"
    /\ requests' = requests + 1
    /\ \E provider \in ProviderReplies :
        outcome' = IF provider = "raise" THEN Raise("provider")
                   ELSE ParseReply(provider)
    /\ apc' = "returned"
    /\ UNCHANGED <<jobVars, frameVars, coach_class, has_lib, self_azure,
                   self_openai_key, n_frames, video_file>>

\* GeminiCoach.analyze, lines 171-177: the library test and genai.upload_file
GeminiUpload ==
    /\ apc = "entered" /\ coach_class = "GeminiCoach"
    /\ IF ~has_lib
       THEN /\ outcome' = Return("err_library")
            /\ apc' = "returned"
            /\ video_file' = video_file
       ELSE \E upload_raises \in BOOLEAN, st \in FileStates :
            IF upload_raises
            THEN /\ outcome' = Raise("upload")
                 /\ apc' = "returned"
                 /\ video_file' = video_file
            ELSE /\ video_file' = st
                 /\ apc' = "wait_test"
                 /\ outcome' = outcome
    /\ UNCHANGED <<jobVars, frameVars, coach_class, has_lib, self_azure,
                   self_openai_key, n_frames, requests>>

\* GeminiCoach.analyze, line 180 and lines 185-186: the test of the while
\* loop and, once the loop is left, the test for FAILED
GeminiWaitTest ==
    /\ apc = "wait_test"
    /\ IF video_file = "PROCESSING"
       THEN apc' = "wait_sleep" /\ outcome' = outcome
       ELSE IF video_file = "FAILED"
            THEN apc' = "returned" /\ outcome' = Raise("remote_failed")
            ELSE apc' = "request" /\ outcome' = outcome
    /\ UNCHANGED <<jobVars, frameVars, coach_class, has_lib, self_azure,
                   self_openai_key, n_frames, video_file, requests>>

\* GeminiCoach.analyze, lines 181-183: time.sleep(2) and genai.get_file
GeminiGetFile ==
    /\ apc = "wait_sleep"
    /\ \E get_raises \in BOOLEAN, st \in FileStates :
        IF get_raises
        THEN /\ outcome' = Raise("provider")
             /\ apc' = "returned"
             /\ video_file' = video_file
        ELSE /\ video_file' = st
             /\ apc' = "wait_test"
             /\ outcome' = outcome
    /\ UNCHANGED <<jobVars, frameVars, coach_class, has_lib, self_azure,
                   self_openai_key, n_frames, requests>>

\* GeminiCoach.analyze, lines 211-218: one model.generate_content, json.loads
GeminiRequest ==
    /\ apc = "request" /\ coach_class = "GeminiCoach"
    /\ requests' = requests + 1
    /\ \E provider \in ProviderReplies :
        outcome' = IF provider = "raise" THEN Raise("provider")
                   ELSE ParseReply(provider)
    /\ apc' = "returned"
    /\ UNCHANGED <<jobVars, frameVars, coach_class, has_lib, self_azure,
                   self_openai_key, n_frames, video_file>>

NextA ==
    \/ AnalyzeCall
    \/ OpenAIChecks
    \/ OpenAIRequest
    \/ GeminiUpload
    \/ GeminiWaitTest
    \/ GeminiGetFile
    \/ GeminiRequest

InitA ==
    /\ useAzure = FALSE
    /\ NoJobs
    /\ NoCall
    /\ NoAnalyze

SpecA == InitA /\ [][NextA]_vars

\* the thread that runs the call is scheduled again and again, and every
\* call it makes to the provider returns or raises
SpecAFair == SpecA /\ WF_vars(NextA)

(***************************************************************************)
(* Properties of Part I                                                    *)
(***************************************************************************)
Record(j) == LoadJob(jobFiles, j)

IsTerminal(r) == ~IsNone(r) /\ r.status \in {"completed", "failed"}

Has(r, key) == key \in DOMAIN r

StatusOf(r) == IF Has(r, "status") THEN r.status ELSE "not_found"

\* the record stored under j is a failed one carrying the description e
FailedWith(j, e) ==
    /\ StatusOf(Record(j)) = "failed"
    /\ Has(Record(j), "error")
    /\ Record(j).error = e

\* the exceptions steps 1-3 (materialize, sample, analyze) raise
StepErrors == {"download", "makedirs", "upload", "remote_failed", "provider"}

\* C1: once a terminal record is stored under a job id, the record read under
\* that id never changes again (so the status moves at most once, from
\* processing to completed or failed).
C1_TerminalRecordIsFinal ==
    [][\A j \in Jobs :
        IsTerminal(Record(j)) => LoadJob(jobFiles', j) = Record(j)]_vars

\* C2: a stored record whose status is not "processing" has exactly one of
\* data and error: data alone when completed, error alone when failed.
C2_ExactlyOneOfDataError ==
    \A j \in Jobs :
        LET r == Record(j)
        IN  (~IsNone(r) /\ r.status # "processing") =>
                /\ r.status = "completed" => Has(r, "data") /\ ~Has(r, "error")
                /\ r.status = "failed" => Has(r, "error") /\ ~Has(r, "data")

\* C3: when analyze reported a typed error, the finished job (its last
\* save_job having succeeded) is stored as failed with an error, and the error
\* payload is not stored as the data of a completed job.
C3_TypedErrorFailsJob ==
    \A j \in Jobs :
        (wpc[j] = "done" /\ analysis[j].doc \in TypedErrors /\ saved[j] = "ok") =>
            /\ StatusOf(Record(j)) = "failed"
            /\ Has(Record(j), "error")
            /\ ~Has(Record(j), "data")

\* C4: in the remote-blob mode, once background_processing has returned (its
\* last save_job having succeeded), the temporary copy of the video is gone.
C4_TempCopyDeleted ==
    \A j \in Jobs :
        (useAzure /\ wpc[j] = "done" /\ saved[j] = "ok") =>
            tempVideos[TempVideoPath(j)] = 0

\* C5: a reader that has been given a job's record is never told "not found"
\* for that job by a later read.
C5_ReaderNeverLosesRecord ==
    [][\A j \in Jobs :
        (lastRead.job = j /\ lastRead.response # "not_found") =>
            ~(lastRead'.job = j /\ lastRead'.response = "not_found")]_vars

\* C6: after a save_job call that failed (its except branch logged the error
\* and returned), load_job still returns what it returned before the call.
C6_FailedSaveKeepsRecord ==
    \A j \in Jobs : saved[j] = "failed" => Record(j) = prevRec[j]

\* C7: once upload_file has returned for a job id, either exactly one run was
\* started for it, or none was and no record is stored under the id.
C7_ExactlyOneRun ==
    \A j \in Jobs :
        upc[j] \in {"redirected", "error"} =>
            \/ started[j] = 1
            \/ started[j] = 0 /\ IsNone(Record(j))

C9_NoCrossContamination ==
    \A j \in Jobs :
        /\ Has(Record(j), "data") =>
                /\ Record(j).data.video = FileSource(j)
                /\ Record(j).data.display_frames \subseteq {j}
        /\ Has(Record(j), "error") => Record(j).error.job = j
        /\ tempVideos[j] \in {0, j}
        /\ tempDirs[j] \in {0, j}
        /\ frameDirs[j] \subseteq {j}

C9_Witness ==
    \E a \in Jobs, b \in Jobs :
        /\ a # b
        /\ wpc[a] = "cleanup" /\ StatusOf(Record(a)) = "completed"
        /\ wpc[b] = "failed_write"
        /\ frameDirs[a] # {} /\ frameDirs[b] # {}

\* the exceptions coach.analyze raises
AdapterErrors == {"upload", "remote_failed", "provider"}

\* the worker of job j has left process_video, which got as far as sampling
PastSampling(j) ==
    /\ wpc[j] \notin {"none", "begin", "process"}
    /\ tempDirs[TempDir(j)] = j
    /\ exc[j].msg # "makedirs"

\* C18: a run whose sampler wrote and returned no frame still has
\* coach.analyze called, with the empty frame set: the run either holds the
\* result analyze returned, with no display frames, or failed with an
\* exception analyze raised; the sampler raised nothing.
C18_EmptyFramesReachAdapter ==
    \A j \in Jobs :
        (PastSampling(j) /\ frameDirs[StaticFramesDir(TempDir(j))] = {}) =>
            \/ /\ analysis[j].doc # "none"
               /\ analysis[j].display_frames = {}
            \/ /\ analysis[j] = NoAnalysis
               /\ exc[j].msg \in AdapterErrors

\* a finished job with no frame, stored with the critique the adapter gave
C18_Witness ==
    \E j \in Jobs :
        /\ wpc[j] = "done" /\ saved[j] = "ok"
        /\ frameDirs[StaticFramesDir(TempDir(j))] = {}
        /\ analysis[j].doc = "critique" /\ analysis[j].display_frames = {}
        /\ StatusOf(Record(j)) = "completed"

\* C19: under fair scheduling, a job whose record reads 'processing' gets a
\* terminal record ('completed' or 'failed'), unless a write to the store
\* fails.
C19_EventuallyTerminal ==
    \A j \in Jobs :
        (StatusOf(Record(j)) = "processing")
            ~> (IsTerminal(Record(j)) \/ saved[j] = "failed")

\* C20: a job has a thread only when its request has made the initial
\* save_job call and gone on to start it; until a request makes that call no
\* record is stored under the job id and no worker step has run, so the
\* initial write precedes every write of the worker; and no save_job call
\* has turned a terminal record into a 'processing' one.
C20_InitialWriteComesFirst ==
    \A j \in Jobs :
        /\ (started[j] > 0 \/ wpc[j] # "none") => upc[j] = "redirected"
        /\ upc[j] = "idle" => (IsNone(Record(j)) /\ saved[j] = "none")
        /\ IsTerminal(prevRec[j]) => StatusOf(Record(j)) # "processing"

\* a job whose worker has written its terminal record after the initial one
C20_Witness ==
    \E j \in Jobs :
        /\ upc[j] = "redirected" /\ started[j] = 1
        /\ wpc[j] = "done" /\ saved[j] = "ok"
        /\ IsTerminal(Record(j))

(***************************************************************************)
(* Properties of Part II                                                   *)
(***************************************************************************)
\* C10: the sequence extract_frames_for_display returns is never longer than
\* the requested frame count.
C10_AtMostRequested ==
    fpc = "returned" => Len(extracted_paths) <= num_frames

\* the files of the folder that the external decoder wrote
Produced == {f \in out_dir : f.by = "ffmpeg"}

\* the files of the folder that the primary strategy wrote
Leftover == {f \in out_dir : f.by = "imageio"}

\* the call ran the external decoder (and the decoder returned normally)
FallbackRan == tried # <<>> /\ tried[Len(tried)] = "ffmpeg"

FallbackInvoked == tried # <<>> /\ tried[Len(tried)] \in {"ffmpeg", "ffmpeg_raised"}

\* C11: the returned frames are in strictly increasing source-time order: no
\* source frame is returned twice and no later frame comes before an earlier
\* one.
C11_StrictlyIncreasing ==
    fpc = "returned" =>
        \A x \in 1..Len(extracted_paths), y \in 1..Len(extracted_paths) :
            x < y => extracted_paths[x].src < extracted_paths[y].src

\* idx is the whole part of i * (total - 1) / (num - 1)
C12_Truncates(i, total, num, idx) ==
    IF num = 1 THEN idx = 0
    ELSE /\ idx * (num - 1) <= i * (total - 1)
         /\ i * (total - 1) < (idx + 1) * (num - 1)

\* idx is i * (total - 1) / (num - 1) rounded to the nearest integer (a tie
\* may go up, or to the even neighbour; the one index of num = 1 is 0)
C12_Rounds(i, total, num, idx) ==
    IF num = 1 THEN idx = 0
    ELSE LET a     == i * (total - 1)
             b     == num - 1
             lo    == a \div b
             twice == 2 * (a % b)
         IN  IF twice < b THEN idx = lo
             ELSE IF twice > b THEN idx = lo + 1
             ELSE idx = lo + 1 \/ (idx = lo /\ lo % 2 = 0)

\* the call took the known-count path and nothing ran after it
KnownPathOnly == tried = <<"known">>

\* C12 as stated: on the known-count path the frame written as number i shows
\* source index round(i * (total - 1) / (num - 1)).
C12_IndicesRounded ==
    KnownPathOnly =>
        \A x \in 1..Len(extracted_paths) :
            C12_Rounds(extracted_paths[x].i, total_frames, num_frames,
                       extracted_paths[x].src)

\* C12 amended: on the known-count path the frame written as number i shows
\* the source index i * (total - 1) / (num - 1) cut down to its whole part
\* (index 0 when one frame is requested); for total = 100 and num = 10 the
\* indices are 0, 11, 22, ..., 99.
C12_IndicesTruncated ==
    /\ KnownPathOnly =>
            \A x \in 1..Len(extracted_paths) :
                C12_Truncates(extracted_paths[x].i, total_frames, num_frames,
                              extracted_paths[x].src)
    /\ Linspace(100, 10) = <<0, 11, 22, 33, 44, 55, 66, 77, 88, 99>>

\* a call whose known-count path wrote all of three frames, the middle one at
\* a source position that is not a whole multiple of the spacing
C12_Witness ==
    /\ KnownPathOnly /\ fpc = "returned"
    /\ num_frames = 3 /\ Len(extracted_paths) = 3
    /\ total_frames % 2 = 0
    /\ extracted_paths[2].src * 2 < total_frames - 1

\* C13: after the external decoder has run, when it produced more frames than
\* requested the call returns, for i in [0, num_frames), the file at position
\* floor(i * produced / num_frames) of the sorted listing, positions that
\* increase strictly and stay below produced; when it produced no more than
\* requested every produced frame is returned.  For 97 produced and 10
\* requested the positions are 0, 9, 19, 29, 38, 48, 58, 67, 77, 87.
C13_FallbackStride ==
    /\ (fpc = "returned" /\ FallbackRan) =>
            LET files    == Sorted(out_dir)
                produced == Cardinality(Produced)
                pos(x)   == ((x - 1) * produced) \div num_frames
            IN  IF produced > num_frames
                THEN /\ Len(extracted_paths) = num_frames
                     /\ \A x \in 1..num_frames :
                            /\ pos(x) < produced
                            /\ x > 1 => pos(x - 1) < pos(x)
                            /\ extracted_paths[x] = files[pos(x) + 1]
                ELSE Produced \subseteq Range(extracted_paths)
    /\ Downsample([k \in 1..97 |-> k - 1], 10)
            = <<0, 9, 19, 29, 38, 48, 58, 67, 77, 87>>

\* C14: the external decoder is run only when the primary strategy is not
\* available or has written no frame in this call.
C14_FallbackOnlyBeforeAnyFrame ==
    FallbackInvoked => (~has_imageio \/ Leftover = {})

\* the call took the iterator path, which ended without raising, and nothing
\* ran after it
IteratePathOnly == tried = <<"iterate">>

C17_Min(a, b) == IF a <= b THEN a ELSE b

\* C17: on the iterator path the frames captured are those at stream
\* positions 0, 30, 60, ... in that order, numbered from 0; when the iteration
\* ends without raising and at least one frame is requested, it has captured
\* min(num_frames, ceil(stream / 30)) of them.
C17_EveryThirtieth ==
    /\ tried \in {<<"iterate">>, <<"iterate_raised">>} =>
            \A x \in 1..Len(extracted_paths) :
                /\ extracted_paths[x].src = 30 * (x - 1)
                /\ extracted_paths[x].i = x - 1
    /\ (IteratePathOnly /\ num_frames >= 1) =>
            Len(extracted_paths) = C17_Min(num_frames, (stream + 29) \div 30)

\* the iteration stopped at the third capture of a stream that went on
C17_Witness ==
    /\ IteratePathOnly /\ fpc = "returned"
    /\ num_frames = 3 /\ stream > 60
    /\ Len(extracted_paths) = 3 /\ extracted_paths[3].src = 60

\* C21: every file a call returns from the external-decoder strategy was
\* written by the decoder in that call; a frame the primary strategy left in
\* the folder is not among them.
C21_FallbackReturnsOwnFrames ==
    (fpc = "returned" /\ FallbackInvoked) =>
        \A x \in 1..Len(extracted_paths) :
            /\ extracted_paths[x].by = "ffmpeg"
            /\ extracted_paths[x] \in Produced \ Leftover

(***************************************************************************)
(* Properties of Part III                                                  *)
(***************************************************************************)
\* C15: OpenAICoach.analyze called with no frames returns one of the error
\* dicts and issues no request to the provider, whatever library and
\* credentials are there.
C15_EmptyFramesNoRequest ==
    (coach_class = "OpenAICoach" /\ n_frames = 0 /\ apc # "entered") =>
        /\ apc = "returned"
        /\ outcome.kind = "return" /\ outcome.doc \in TypedErrors
        /\ requests = 0

\* the call with no frames, the library installed and both credentials set
C15_Witness ==
    /\ coach_class = "OpenAICoach" /\ n_frames = 0 /\ apc = "returned"
    /\ has_lib /\ self_azure /\ self_openai_key
    /\ outcome = Return("err_no_frames")

\* the call is inside `while video_file.state.name == "PROCESSING"`
InWaitLoop == apc \in {"wait_test", "wait_sleep"}

\* C16: GeminiCoach.analyze always leaves its wait loop, also when the remote
\* service keeps reporting PROCESSING, and a FAILED state ends the call with
\* an exception and no further poll.
C16_PollLoopBounded ==
    /\ InWaitLoop ~> ~InWaitLoop
    /\ [][(apc = "wait_test" /\ video_file = "FAILED") =>
            (apc' = "returned" /\ outcome' = Raise("remote_failed"))]_vars

====
